---- MODULE Spec2Model ----
(***************************************************************************)
(* VideoRecordingController (video_recording_controller.cpp): the session  *)
(* that pipes rendered frames to an ffmpeg subprocess and keeps the        *)
(* per-frame timestamp log that close() persists as world_timestamps.npy.  *)
(*                                                                         *)
(* Program state is the controller's members plus the function-local       *)
(* static of update().  The environment is the set of spawned encoder      *)
(* processes, the .npy files on disk and the still images written.  The    *)
(* history variables (last, state, sess, frames, unsaved) record what the   *)
(* caller, the encoder and the disk have seen, so that properties about    *)
(* return values and call sequences are state predicates.                  *)
(***************************************************************************)
EXTENDS Integers, Sequences, FiniteSets, TLC

\* ---------------------------------------------------------------- bounds
\* Longest timestamp log explored.
MaxLen == 2
\* Number of encoder processes that can run at once before popen() runs
\* out of resources and returns NULL.
MaxProcs == 1
\* Timestamps the host may pass (doubles); repeats and decreasing orders
\* occur.
Timestamps == {1, 2}

\* Directories the host may hand to init(); "" is the empty string.
Dirs == {"", "recA"}

\* Worlds the host may hand to init(); each has a camera [0].
Worlds == {1, 2}

\* m_camera->m_width / m_height of camera [0] of world w.
CameraWidth(w) == IF w = 1 THEN 640 ELSE 1280
CameraHeight(w) == IF w = 1 THEN 480 ELSE 720

\* The null pointer (nullptr / NULL returned by popen).
NULL == 0

\* A path "<dir>/<name>", kept as its two components.
Path(dir, name) == <<dir, name>>

NpyPaths == {Path(d, "world_timestamps.npy") : d \in Dirs}

\* Marks a path at which no file exists.
NoFile == [shape |-> <<>>, data |-> <<>>]

VARIABLES
    m_camera,               \* NULL or the world whose camera [0] is bound
    m_width, m_height,      \* resolution copied from the camera
    m_frameBuffer,          \* TRUE once cFrameBuffer::create()/setup() ran
    m_saveDirectory,        \* std::string
    m_video_filename,       \* Path or <<>> (empty string)
    m_timestamps_filename,  \* Path or <<>> (empty string)
    m_ffmpeg,               \* NULL or the FILE*: the id in procs of its process
    m_recorded_timestamps,  \* std::vector<double>
    save_first_frame_img,   \* static bool of update()
    procs,                  \* environment: running encoder processes, by id
    files,                  \* environment: content of each .npy path
    stills,                 \* environment: number of <cameraName>.png writes
    alive,                  \* FALSE once the host process has crashed
    last,                   \* history: the last call, its result and outcome
    state,                  \* history: the session state of the state machine
    sess,                   \* history: timestamps passed since a live start
    frames,                 \* history: frames delivered since the last start
    unsaved,                \* history: the log holds entries no flush has written
    pclose_wait             \* "none", or where close() stands inside pclose():
                            \* "running" (encoder alive) or "exited"

vars == <<m_camera, m_width, m_height, m_frameBuffer, m_saveDirectory,
          m_video_filename, m_timestamps_filename, m_ffmpeg,
          m_recorded_timestamps, save_first_frame_img, procs, files, stills,
          alive, last, state, sess, frames, unsaved,
          pclose_wait>>

members == <<m_camera, m_width, m_height, m_frameBuffer, m_saveDirectory,
             m_video_filename, m_timestamps_filename, m_ffmpeg,
             m_recorded_timestamps, save_first_frame_img>>

environment == <<procs, files, stills>>

\* The record kept of a call: which operation, what it returned, what it
\* printed on cerr, and what the environment did (popen, fwrite, npy_save).
Call(op, ret, msg, env) == [op |-> op, ret |-> ret, msg |-> msg, env |-> env]

\* ------------------------------------------------------ pure helper steps

\* Value of the pointer members the empty constructor leaves to their
\* in-class initialisers (declared in the header).
HeaderDefault == NULL

\* Variant: the guard forgets the save directory.
NotInitialized_cameraOnly(camera, dir) == camera = NULL

\* start_recording's guard: camera or save directory missing.
NotInitialized(camera, dir) == camera = NULL \/ dir = ""

\* to_string(m_width) + "x" + to_string(m_height)
SizeStr(w, h) == <<w, h>>

\* The ffmpeg command line: everything but the size and the output path is
\* a fixed string.
Cmd(w, h, video) == [r |-> 60, size |-> SizeStr(w, h), crf |-> 21, out |-> video]

\* popen(cmd, "w"): a new process and its handle, or NULL; it never throws.
\* Of a running process the environment keeps the file it encodes to.
Popen(ps, cmd, ok) ==
    IF ok THEN LET new == CHOOSE p \in 1..(MaxProcs + 1) : p \notin DOMAIN ps
               IN  [procs |-> (new :> [out |-> cmd.out]) @@ ps, handle |-> new]
          ELSE [procs |-> ps, handle |-> NULL]

\* Variant: the clear() is missing.
LogAfterStart_noClear(log, t) == Append(log, t)

\* m_recorded_timestamps.clear(); push_back(world_timestamp)
LogAfterStart(log, t) == <<t>>

\* start_recording's result once the guard has passed: the catch block
\* that returns -1 is unreachable because popen does not throw.
StartReturn(handle) == "1"

\* fwrite(data, frameBytes, 1, m_ffmpeg): the number of whole frames the
\* encoder has received, one more when the write succeeds.
Fwrite(n, ok) == IF ok THEN n + 1 ELSE n

\* Variant: the push_back sits outside if (m_ffmpeg).
LogAfterUpdate_always(log, handle, t, writeOk) == Append(log, t)

\* update's effect on the log: push_back follows fwrite unconditionally
\* inside if (m_ffmpeg); the else branch returns.
LogAfterUpdate(log, handle, t, writeOk) ==
    IF handle # NULL THEN Append(log, t) ELSE log

\* Variant: the flag is never lowered.
FirstFrameFlagAfterUpdate_kept(flag) == flag

\* save_first_frame_img after an update that reached the still-image
\* block: lowered by the first save, and false ever after.
FirstFrameFlagAfterUpdate(flag) == FALSE

\* Variant: the shape is one short of the vector's size.
NpySave_short(timestamps) ==
    LET size == Len(timestamps) - 1
    IN  [shape |-> <<size>>, data |-> [i \in 1..size |-> timestamps[i]]]

\* cnpy::npy_save(filename, timestamps.data(), {timestamps.size()}, "w")
NpySave(timestamps) ==
    LET size == Len(timestamps)
    IN  [shape |-> <<size>>, data |-> [i \in 1..size |-> timestamps[i]]]

\* pclose(m_ffmpeg): the stream is closed and the process waited for.
Pclose(ps, handle) == [p \in DOMAIN ps \ {handle} |-> ps[p]]

\* Variant: the handle is nulled only after the flush went through.
HandleAfterClose_afterFlush(handle, flushOk) == IF flushOk THEN NULL ELSE handle

\* m_ffmpeg after close(): nulled right after pclose, before the flush.
HandleAfterClose(handle, flushOk) == NULL

\* Variant: close() clears the vector.
LogAfterClose_clear(log) == <<>>

\* close() never touches m_recorded_timestamps.
LogAfterClose(log) == log

\* Variant: closing with no encoder is reported as a failure.
CloseReturn_strict(active, flushOk) == IF active /\ flushOk THEN "true" ELSE "false"

\* close()'s result: false only from the catch around the flush.
CloseReturn(active, flushOk) == IF active /\ ~flushOk THEN "false" ELSE "true"

\* ------------------------------------------------------------------ Init
Init ==
    /\ m_camera = HeaderDefault
    /\ m_width = 0
    /\ m_height = 0
    /\ m_frameBuffer = FALSE
    /\ m_saveDirectory = ""
    /\ m_video_filename = <<>>
    /\ m_timestamps_filename = <<>>
    /\ m_ffmpeg = HeaderDefault
    /\ m_recorded_timestamps = <<>>
    /\ save_first_frame_img = TRUE
    /\ procs = <<>>
    /\ files = [p \in NpyPaths |-> NoFile]
    /\ stills = 0
    /\ alive = TRUE
    /\ last = Call("none", "none", "none", "none")
    /\ state = "Uninitialized"
    /\ sess = <<>>
    /\ frames = 0
    /\ unsaved = FALSE
    /\ pclose_wait = "none"

\* --------------------------------------------------------------- actions

\* int init(a_afWorld, startingDir)
init(a_afWorld, startingDir) ==
    /\ alive
    /\ m_camera' = a_afWorld
    /\ m_width' = CameraWidth(a_afWorld)
    /\ m_height' = CameraHeight(a_afWorld)
    /\ m_frameBuffer' = TRUE
    /\ m_saveDirectory' = startingDir
    /\ last' = Call("init", "1", "initialized", "none")
    /\ state' = IF state = "Recording" THEN "Recording" ELSE "Initialized"
    /\ sess' = <<>>
    /\ UNCHANGED <<m_video_filename, m_timestamps_filename, m_ffmpeg,
                   m_recorded_timestamps, save_first_frame_img,
                   environment, alive, frames, unsaved, pclose_wait>>

\* int start_recording(world_timestamp); spawnOk is popen's outcome.
start_recording(world_timestamp, spawnOk) ==
    /\ alive
    /\ IF NotInitialized(m_camera, m_saveDirectory)
       THEN /\ last' = Call("start_recording", "-1", "not_initialized", "none")
            /\ sess' = <<>>
            /\ UNCHANGED <<members, environment, alive, state, frames,
                           unsaved, pclose_wait>>
       ELSE LET video == Path(m_saveDirectory, "world.mp4")
                sp == Popen(procs, Cmd(m_width, m_height, video), spawnOk)
            IN  /\ spawnOk => Cardinality(DOMAIN procs) < MaxProcs
                /\ m_video_filename' = video
                /\ procs' = sp.procs
                /\ m_ffmpeg' = sp.handle
                /\ m_recorded_timestamps' =
                       LogAfterStart(m_recorded_timestamps, world_timestamp)
                /\ last' = Call("start_recording", StartReturn(sp.handle), "started",
                                IF spawnOk THEN "spawn_ok" ELSE "spawn_failed")
                /\ state' = IF spawnOk THEN "Recording" ELSE state
                /\ sess' = IF spawnOk THEN <<world_timestamp>> ELSE <<>>
                /\ frames' = 0
                /\ unsaved' = TRUE
                /\ UNCHANGED <<m_camera, m_width, m_height, m_frameBuffer,
                               m_saveDirectory, m_timestamps_filename,
                               save_first_frame_img, files, stills, alive,
                               pclose_wait>>

\* void update(current_timestamp) on a controller whose m_frameBuffer is
\* still null: m_frameBuffer->renderView() dereferences a null shared_ptr,
\* which ends the host process.
update_null_framebuffer ==
    /\ alive
    /\ ~m_frameBuffer
    /\ alive' = FALSE
    /\ last' = Call("update", "none", "none", "crash")
    /\ UNCHANGED <<members, environment, state, sess, frames, unsaved,
                   pclose_wait>>

\* void update(current_timestamp); writeOk is fwrite's outcome, which the
\* code does not look at.  renderView, copyImageBuffer and saveToFile
\* report by return value, so the catch block is not taken.
update(current_timestamp, writeOk) ==
    /\ alive
    /\ m_frameBuffer
    /\ Len(sess) < MaxLen
    /\ sess' = IF sess = <<>> THEN <<>> ELSE Append(sess, current_timestamp)
    /\ m_recorded_timestamps' =
           LogAfterUpdate(m_recorded_timestamps, m_ffmpeg, current_timestamp, writeOk)
    /\ unsaved' = IF m_recorded_timestamps' # m_recorded_timestamps
                  THEN TRUE ELSE unsaved
    /\ IF m_ffmpeg # NULL
       THEN /\ Len(m_recorded_timestamps) < MaxLen
            /\ frames' = Fwrite(frames, writeOk)
            /\ stills' = IF save_first_frame_img THEN stills + 1 ELSE stills
            /\ save_first_frame_img' =
                   FirstFrameFlagAfterUpdate(save_first_frame_img)
            /\ last' = Call("update", "void", "none",
                            IF writeOk THEN "write_ok" ELSE "write_failed")
       ELSE /\ writeOk
            /\ last' = Call("update", "void", "ffmpeg_not_initialized", "none")
            /\ UNCHANGED <<frames, stills, save_first_frame_img>>
    /\ UNCHANGED <<m_camera, m_width, m_height, m_frameBuffer, m_saveDirectory,
                   m_video_filename, m_timestamps_filename, m_ffmpeg,
                   procs, files, alive, state, pclose_wait>>

\* What close() does to everything but its place inside pclose(); flushOk
\* is whether npy_save completes without throwing.  A save that throws is
\* taken to leave the file as it was.
CloseEffects(flushOk) ==
    /\ alive
    /\ sess' = <<>>
    /\ m_recorded_timestamps' = LogAfterClose(m_recorded_timestamps)
    /\ last' = Call("close", CloseReturn(m_ffmpeg # NULL, flushOk),
                    IF m_ffmpeg = NULL THEN "none"
                    ELSE IF flushOk THEN "timestamps_saved" ELSE "save_failed",
                    IF m_ffmpeg = NULL THEN "none"
                    ELSE IF flushOk THEN "flush_ok" ELSE "flush_failed")
    /\ state' = IF state = "Recording" THEN "Stopped" ELSE state
    /\ IF m_ffmpeg # NULL
       THEN LET npy == Path(m_saveDirectory, "world_timestamps.npy")
            IN  /\ procs' = Pclose(procs, m_ffmpeg)
                /\ m_ffmpeg' = HandleAfterClose(m_ffmpeg, flushOk)
                /\ m_timestamps_filename' = npy
                /\ files' = IF flushOk
                            THEN [files EXCEPT ![npy] = NpySave(m_recorded_timestamps)]
                            ELSE files
       ELSE /\ flushOk
            /\ UNCHANGED <<m_ffmpeg, m_timestamps_filename, procs, files>>
    /\ UNCHANGED <<m_camera, m_width, m_height, m_frameBuffer, m_saveDirectory,
                   m_video_filename, save_first_frame_img, stills, alive,
                   frames>>
    /\ unsaved' = IF /\ last'.env = "flush_ok"
                     /\ files'[m_timestamps_filename'].data = m_recorded_timestamps'
                  THEN FALSE ELSE unsaved

\* bool close(), from call to return, pclose() having returned.
close(flushOk) ==
    /\ pclose_wait = "none"
    /\ CloseEffects(flushOk)
    /\ UNCHANGED pclose_wait

\* close() up to its blocking point: with a handle it calls pclose(), which
\* closes the pipe and then waits, without a time limit, for the encoder
\* process to terminate.
close_enter ==
    /\ alive
    /\ pclose_wait = "none"
    /\ m_ffmpeg # NULL
    /\ pclose_wait' = "running"
    /\ UNCHANGED <<members, environment, alive, last, state, sess, frames,
                   unsaved>>

\* Environment: the encoder process terminates after its input was closed.
encoder_exits ==
    /\ pclose_wait = "running"
    /\ pclose_wait' = "exited"
    /\ UNCHANGED <<members, environment, alive, last, state, sess, frames,
                   unsaved>>

\* close() from the return of pclose() to its own return.
close_return(flushOk) ==
    /\ pclose_wait = "exited"
    /\ CloseEffects(flushOk)
    /\ pclose_wait' = "none"

\* Variant: a hook (reset, say) empties the timestamp log.
Hook_clearsLog ==
    /\ alive
    /\ last' = Call("hook", "void", "none", "none")
    /\ m_recorded_timestamps' = <<>>
    /\ UNCHANGED <<m_camera, m_width, m_height, m_frameBuffer, m_saveDirectory,
                   m_video_filename, m_timestamps_filename, m_ffmpeg,
                   save_first_frame_img, environment, alive, state, sess,
                   frames, unsaved, pclose_wait>>

\* The hooks with an empty body.
Hook ==
    /\ alive
    /\ last' = Call("hook", "void", "none", "none")
    /\ UNCHANGED <<members, environment, alive, state, sess, frames, unsaved,
                   pclose_wait>>

keyboardUpdate == Hook
mouseBtnsUpdate == Hook
mousePosUpdate == Hook
mouseScrollUpdate == Hook
physicsUpdate == Hook
reset == Hook

Next ==
    \/ \E w \in Worlds, d \in Dirs : init(w, d)
    \/ \E t \in Timestamps, ok \in BOOLEAN : start_recording(t, ok)
    \/ update_null_framebuffer
    \/ \E t \in Timestamps, ok \in BOOLEAN : update(t, ok)
    \/ \E ok \in BOOLEAN : close(ok)
    \/ keyboardUpdate
    \/ mouseBtnsUpdate
    \/ mousePosUpdate
    \/ mouseScrollUpdate
    \/ physicsUpdate
    \/ reset

Spec == Init /\ [][Next]_vars

\* The runs in which no flush fails: npy_save never throws.
NextNoFlushFail ==
    \/ \E w \in Worlds, d \in Dirs : init(w, d)
    \/ \E t \in Timestamps, ok \in BOOLEAN : start_recording(t, ok)
    \/ update_null_framebuffer
    \/ \E t \in Timestamps, ok \in BOOLEAN : update(t, ok)
    \/ close(TRUE)
    \/ keyboardUpdate
    \/ mouseBtnsUpdate
    \/ mousePosUpdate
    \/ mouseScrollUpdate
    \/ physicsUpdate
    \/ reset

SpecNoFlushFail == Init /\ [][NextNoFlushFail]_vars

\* No call is in progress: the host is single-threaded and calls nothing
\* while close() is blocked.
Idle == pclose_wait = "none"

\* The same calls with close() taken in the steps of its pclose().
NextLive ==
    \/ Idle /\ \E w \in Worlds, d \in Dirs : init(w, d)
    \/ Idle /\ \E t \in Timestamps, ok \in BOOLEAN : start_recording(t, ok)
    \/ Idle /\ update_null_framebuffer
    \/ Idle /\ \E t \in Timestamps, ok \in BOOLEAN : update(t, ok)
    \/ m_ffmpeg = NULL /\ close(TRUE)
    \/ close_enter
    \/ encoder_exits
    \/ \E ok \in BOOLEAN : close_return(ok)
    \/ Idle /\ keyboardUpdate
    \/ Idle /\ mouseBtnsUpdate
    \/ Idle /\ mousePosUpdate
    \/ Idle /\ mouseScrollUpdate
    \/ Idle /\ physicsUpdate
    \/ Idle /\ reset

\* Once pclose() can return, close() runs on to its return; nothing obliges
\* the encoder to terminate or the host to make a call.
SpecLive ==
    /\ Init
    /\ [][NextLive]_vars
    /\ WF_vars(\E ok \in BOOLEAN : close_return(ok))

\* ---------------------------------------------------------------- claims

\* The file close() writes to in the current state.
NpyPath == Path(m_saveDirectory, "world_timestamps.npy")

\* C1: after init, start(t0) with a live encoder and N updates t1..tN, the
\* timestamp log is exactly <<t0, t1, ..., tN>>.
C1_LogIsCallSequence == sess # <<>> => m_recorded_timestamps = sess

C1_Witness ==
    /\ last.op = "update"
    /\ sess = <<2, 1>>
    /\ m_recorded_timestamps = <<2, 1>>

\* C2: update with no active encoder (after init) reports "FFmpeg process
\* not initialized", appends nothing to the log, writes no frame and no
\* still image.
C2_UpdateWithoutEncoder ==
    [][(last'.op = "update" /\ m_frameBuffer /\ m_ffmpeg = NULL)
        => /\ last'.msg = "ffmpeg_not_initialized"
           /\ m_recorded_timestamps' = m_recorded_timestamps
           /\ frames' = frames
           /\ stills' = stills
           /\ procs' = procs]_vars

C2_Witness ==
    /\ last.op = "update"
    /\ last.msg = "ffmpeg_not_initialized"
    /\ state = "Stopped"
    /\ m_recorded_timestamps # <<>>

\* C3: close() with no active encoder returns true and changes nothing: no
\* process is closed, no file is written, log and handle stay as they were.
C3_StopWithoutEncoder ==
    [][(last'.op = "close" /\ m_ffmpeg = NULL)
        => /\ last'.ret = "true"
           /\ UNCHANGED <<m_ffmpeg, m_recorded_timestamps, procs, files,
                          m_timestamps_filename>>]_vars

C3_Witness ==
    /\ last.op = "close"
    /\ last.env = "none"
    /\ last.ret = "true"
    /\ state = "Stopped"
    /\ m_recorded_timestamps # <<>>

\* C4: when close() runs with an active encoder and the flush succeeds, the
\* array in world_timestamps.npy is the log as it was when close() was
\* called: same length, same order, repeats kept.
C4_FlushWritesLog ==
    [][(last'.op = "close" /\ m_ffmpeg # NULL /\ last'.env = "flush_ok")
        => /\ files'[NpyPath].shape = <<Len(m_recorded_timestamps)>>
           /\ files'[NpyPath].data = m_recorded_timestamps]_vars

C4_Witness ==
    /\ last.op = "close"
    /\ last.env = "flush_ok"
    /\ files[Path("recA", "world_timestamps.npy")].data = <<2, 2>>

\* C5: while an encoder is live, the log length is 1 plus the number of
\* frames fwrite delivered since start (a failed write appends nothing).
C5_LogLengthMatchesFrames ==
    m_ffmpeg # NULL => Len(m_recorded_timestamps) = 1 + frames

\* C6: when popen fails in start_recording, the call returns -1, no handle
\* is held and the log is neither reset nor given the start timestamp.
C6_SpawnFailureReported ==
    [][(last'.op = "start_recording" /\ last'.env = "spawn_failed")
        => /\ last'.ret = "-1"
           /\ m_ffmpeg' = NULL
           /\ state' = state
           /\ m_recorded_timestamps' = m_recorded_timestamps]_vars

\* C7: start_recording with no camera bound or an empty save directory
\* returns -1 and changes nothing: no process is spawned, the handle and
\* the log stay as they were.
C7_StartBeforeInit ==
    [][(last'.op = "start_recording" /\ (m_camera = NULL \/ m_saveDirectory = ""))
        => /\ last'.ret = "-1"
           /\ UNCHANGED <<m_ffmpeg, m_recorded_timestamps, procs>>]_vars

C7_Witness ==
    /\ last.op = "start_recording"
    /\ last.ret = "-1"
    /\ m_camera # NULL
    /\ m_saveDirectory = ""
    /\ m_ffmpeg = NULL
    /\ m_recorded_timestamps # <<>>

\* C8: the encoder handle is non-null exactly when the session is between
\* a start that spawned the encoder and the next stop.
C8_HandleIffRecording == (m_ffmpeg # NULL) <=> (state = "Recording")

\* C9: when close() runs with an active encoder and the flush fails, it
\* returns false, yet the encoder has been closed and the handle is null.
C9_FlushFailureStillCloses ==
    [][(last'.op = "close" /\ m_ffmpeg # NULL /\ last'.env = "flush_failed")
        => /\ last'.ret = "false"
           /\ m_ffmpeg' = NULL
           /\ m_ffmpeg \notin DOMAIN procs'
           /\ state' # "Recording"]_vars

C9_Witness ==
    /\ last.op = "close"
    /\ last.env = "flush_failed"
    /\ last.ret = "false"
    /\ m_ffmpeg = NULL

\* C10 as stated: after a close() that flushed the log, the log is empty.
C10_LogEmptyAfterStop ==
    (last.op = "close" /\ last.env = "flush_ok") => m_recorded_timestamps = <<>>

\* C10 as amended: a close() that flushed the log leaves it as it was, with
\* the start entry and every later one; the log loses entries only in
\* start_recording.
C10_LogKeptUntilStart ==
    [][/\ (last'.op = "close" /\ last'.env = "flush_ok")
            => /\ m_recorded_timestamps' = m_recorded_timestamps
               /\ m_recorded_timestamps' # <<>>
       /\ (\E i \in 1..Len(m_recorded_timestamps) :
               \/ i > Len(m_recorded_timestamps')
               \/ m_recorded_timestamps'[i] # m_recorded_timestamps[i])
            => last'.op = "start_recording"]_vars

C10_Witness ==
    /\ last.op = "close"
    /\ last.env = "flush_ok"
    /\ Len(m_recorded_timestamps) = 2
    /\ files[m_timestamps_filename].data = m_recorded_timestamps

\* C11: once init has run, the resolution and the save directory never
\* change again, whatever is called, a repeated init included.
C11_ConfigImmutable ==
    [][m_frameBuffer => UNCHANGED <<m_width, m_height, m_saveDirectory>>]_vars

\* C12: the first-frame still image is written at most once in the life of
\* the process: by the first update that runs with a live encoder, and by no
\* other call, in whichever session.
C12_StillSavedOnce ==
    [][/\ stills' <= 1
       /\ (last'.op = "update" /\ m_ffmpeg # NULL) => stills' = 1
       /\ stills' # stills => (last'.op = "update" /\ m_ffmpeg # NULL)]_vars

\* A live update of a session whose log has no update entry yet, with the
\* still already written and a file flushed: the still dates from an
\* earlier session.
C12_Witness ==
    /\ last.op = "update"
    /\ last.env = "write_ok"
    /\ Len(m_recorded_timestamps) = 2
    /\ stills = 1
    /\ files[Path("recA", "world_timestamps.npy")].data # <<>>
    /\ Len(files[Path("recA", "world_timestamps.npy")].data) = 2

\* C13: the hooks with an empty body change nothing of the session: members
\* (handle, log, directory, resolution, first-frame flag), processes, files,
\* still images and session state.
C13_HooksChangeNothing ==
    [][last'.op = "hook" => UNCHANGED <<members, environment, state>>]_vars

C13_Witness ==
    /\ last.op = "hook"
    /\ m_ffmpeg # NULL
    /\ Len(m_recorded_timestamps) = 2
    /\ ~save_first_frame_img

\* C15: a start that spawns the encoder leaves the log holding the new start
\* timestamp alone, and the file a successful close() writes holds the
\* timestamps of that start and its updates only, none of an earlier
\* session.
C15_RestartResetsLog ==
    [][/\ (last'.op = "start_recording" /\ last'.env = "spawn_ok")
            => /\ Len(m_recorded_timestamps') = 1
               /\ m_recorded_timestamps' = sess'
       /\ (last'.op = "close" /\ last'.env = "flush_ok" /\ sess # <<>>)
            => files'[NpyPath].data = sess]_vars

\* The file holds a lone start timestamp although a still image exists: the
\* update that wrote the still belongs to an earlier session than the one
\* just flushed.
C15_Witness ==
    /\ last.op = "close"
    /\ last.env = "flush_ok"
    /\ stills = 1
    /\ m_recorded_timestamps = <<2>>
    /\ files[Path("recA", "world_timestamps.npy")].data = <<2>>

\* C16: every running encoder process is the one the handle refers to: at
\* most one runs at a time and none runs without a handle.
C16_NoOrphanEncoder == DOMAIN procs \subseteq {m_ffmpeg}

\* C18: the timestamp file a close() writes lies in the directory of the
\* world.mp4 that the encoder being closed was started with.
C18_FileBesideVideo ==
    [][(last'.op = "close" /\ m_ffmpeg # NULL /\ last'.env = "flush_ok")
        => LET npy == Path(procs[m_ffmpeg].out[1], "world_timestamps.npy")
           IN  /\ m_timestamps_filename' = npy
               /\ files'[npy] = NpySave(m_recorded_timestamps)]_vars

\* C17: in a run without flush failure, every timestamp start or update
\* appended is in the file once stop has been called, and the log drops no
\* entry that no flush has written.
C17_NothingLostUnsaved ==
    [][/\ last'.op = "close" => ~unsaved'
       /\ (\E i \in 1..Len(m_recorded_timestamps) :
               \/ i > Len(m_recorded_timestamps')
               \/ m_recorded_timestamps'[i] # m_recorded_timestamps[i])
            => ~unsaved]_vars

\* C14: a close() that has entered pclose() always returns in the end,
\* whether or not the encoder terminates by itself.
C14_StopReturns == (pclose_wait # "none") ~> (pclose_wait = "none")

====
